---------------------------- MODULE Spec2Model ----------------------------
(***************************************************************************)
(* A model of sr-test.py: the classification and ordering of the sr        *)
(* devices, the main program (pool creation, filter, the four pool.map     *)
(* categories, baseline load and reference capture) and the four device    *)
(* operations run by the pool workers.                                     *)
(***************************************************************************)
EXTENDS Integers, Sequences, FiniteSets, TLC

(***************************************************************************)
(* Bounds of the model.                                                    *)
(***************************************************************************)
\* number of sr devices the modelled machine can have (a prefix of SysDevices)
MaxDevices == 3
\* number of devices in an input list of the sort-only specification
MaxSort == 4
\* number of sr devices of the machine in the specification with fairness
MaxFairDevices == 2

(***************************************************************************)
(* Python values.                                                          *)
(***************************************************************************)
\* Python's None, where the other values are strings
PyNone == "None"
\* the outcome of a lookup of a sysfs file or link that does not exist
NoFile == "ENOENT"

(***************************************************************************)
(* str operations used by the program.                                     *)
(***************************************************************************)
Char(s, i) == SubSeq(s, i, i)

\* the characters of the modelled paths, in code point order
Alphabet == "-./0123456789:_abcdefghijklmnopqrstuvwxyz"

Ord(c) == CHOOSE i \in 1..Len(Alphabet) : Char(Alphabet, i) = c

\* str.startswith
StartsWith(s, p) == Len(s) >= Len(p) /\ SubSeq(s, 1, Len(p)) = p

\* the `in` operator on two strings
Contains(s, sub) ==
    \E i \in 1..(Len(s) - Len(sub) + 1) : SubSeq(s, i, i + Len(sub) - 1) = sub

\* str < str: the first differing character decides, a proper prefix is smaller
RECURSIVE StrLessFrom(_, _, _)
StrLessFrom(a, b, i) ==
    IF i > Len(b) THEN FALSE
    ELSE IF i > Len(a) THEN TRUE
    ELSE IF Char(a, i) = Char(b, i) THEN StrLessFrom(a, b, i + 1)
    ELSE Ord(Char(a, i)) < Ord(Char(b, i))

StrLess(a, b) == StrLessFrom(a, b, 1)

\* the position of the first "/" of s at or after `start`, Len(s) + 1 if none
NextSlash(s, start) ==
    LET at == { i \in start..Len(s) : Char(s, i) = "/" }
    IN  IF at = {} THEN Len(s) + 1 ELSE CHOOSE i \in at : \A j \in at : i <= j

\* str.split("/"): the part from `start` up to the next "/", then the parts after it
RECURSIVE SplitFrom(_, _)
SplitFrom(s, start) ==
    LET stop == NextSlash(s, start)
    IN  IF stop > Len(s) THEN <<SubSeq(s, start, Len(s))>>
        ELSE <<SubSeq(s, start, stop - 1)>> \o SplitFrom(s, stop + 1)

Split(s) == SplitFrom(s, 1)

\* device.split("/")[-1]
LastPart(device) == LET parts == Split(device) IN parts[Len(parts)]

\* os.path.join("/", *parts[0:n]) for the parts of an absolute path
RECURSIVE JoinFrom(_, _, _)
JoinFrom(parts, i, n) ==
    IF i > n THEN ""
    ELSE "/" \o parts[i] \o JoinFrom(parts, i + 1, n)

JoinBase(parts, n) == IF n <= 1 THEN "/" ELSE JoinFrom(parts, 2, n)

\* str.replace("0x", "")
RECURSIVE Strip0x(_)
Strip0x(s) ==
    IF Len(s) = 0 THEN ""
    ELSE IF StartsWith(s, "0x") THEN Strip0x(SubSeq(s, 3, Len(s)))
    ELSE Char(s, 1) \o Strip0x(SubSeq(s, 2, Len(s)))

(***************************************************************************)
(* The sysfs tree of the modelled machine: a PATA controller with a master *)
(* and a slave drive, a USB drive, a drive on an AHCI controller (whose    *)
(* driver names start with neither pata nor sata) and a drive on a sata_nv *)
(* controller.                                                             *)
(***************************************************************************)
PataMaster == "/sys/devices/pci0/00:1f.1/ata1/host0/target0:0:0/0:0:0:0/block/sr0"
UsbDrive   == "/sys/devices/pci0/00:1d.7/usb1/1-1/1-1:1.0/host6/target6:0:0/6:0:0:0/block/sr1"
AhciDrive  == "/sys/devices/pci0/00:1f.2/ata3/host2/target2:0:0/2:0:0:0/block/sr2"
SataDrive  == "/sys/devices/pci0/00:0e.0/ata5/host4/target4:0:0/4:0:0:0/block/sr3"
PataSlave  == "/sys/devices/pci0/00:1f.1/ata1/host0/target0:0:1/0:0:1:0/block/sr4"

\* what glob.glob("/sys/class/block/sr*") can list, each through os.path.realpath
SysDevices == <<PataMaster, UsbDrive, SataDrive, AhciDrive, PataSlave>>

\* device.split("/")[-1] of each of them, split once
ShortName == [d \in { SysDevices[i] : i \in 1..Len(SysDevices) } |-> LastPart(d)]

\* the short name of a device path
BaseName(device) == IF device \in DOMAIN ShortName THEN ShortName[device] ELSE LastPart(device)

\* how long the device-control call of a tray operation blocks on each drive, in
\* ticks of the clock the operations measure with (the tray motor of the drive)
TrayTicks(op, device) ==
    CASE device = PataMaster -> IF op = "eject" THEN 3 ELSE 4
      [] device = SataDrive  -> IF op = "eject" THEN 2 ELSE 3
      [] device = PataSlave  -> IF op = "eject" THEN 4 ELSE 5
      [] device = AhciDrive  -> IF op = "eject" THEN 2 ELSE 2
      [] OTHER               -> 1

\* the attribute files that differ from the tables below, as a mapping from
\* <<directory, file name>> to the content (NoFile: the file does not exist);
\* empty on the machine the program runs on, varied where device_drivers and
\* the classifiers are examined over the files a sysfs tree can hold
VARIABLE sysfs

NoOverlay == [k \in {} |-> NoFile]

\* os.readlink(base + "/driver"), its basename
SysfsDriver(base) ==
    IF <<base, "driver">> \in DOMAIN sysfs THEN sysfs[<<base, "driver">>] ELSE
    CASE base = "/sys/devices/pci0/00:1f.1" -> "pata_via"
      [] base = "/sys/devices/pci0/00:1d.7" -> "ehci-pci"
      [] base = "/sys/devices/pci0/00:1f.2" -> "ahci"
      [] base = "/sys/devices/pci0/00:0e.0" -> "sata_nv"
      [] base = "/sys/devices/pci0/00:1d.7/usb1" -> "usb"
      [] base = "/sys/devices/pci0/00:1d.7/usb1/1-1" -> "usb"
      [] base = "/sys/devices/pci0/00:1d.7/usb1/1-1/1-1:1.0" -> "usb-storage"
      [] base = "/sys/devices/pci0/00:1f.1/ata1/host0/target0:0:0/0:0:0:0" -> "sr"
      [] base = "/sys/devices/pci0/00:1f.1/ata1/host0/target0:0:1/0:0:1:0" -> "sr"
      [] base = "/sys/devices/pci0/00:1d.7/usb1/1-1/1-1:1.0/host6/target6:0:0/6:0:0:0" -> "sr"
      [] base = "/sys/devices/pci0/00:1f.2/ata3/host2/target2:0:0/2:0:0:0" -> "sr"
      [] base = "/sys/devices/pci0/00:0e.0/ata5/host4/target4:0:0/4:0:0:0" -> "sr"
      [] OTHER -> NoFile

\* open(base + "/" + attr).read().strip()
SysfsAttr(base, attr) ==
    IF <<base, attr>> \in DOMAIN sysfs THEN sysfs[<<base, attr>>] ELSE
    CASE base = "/sys/devices/pci0/00:1f.1" /\ attr = "vendor" -> "0x1106"
      [] base = "/sys/devices/pci0/00:1f.1" /\ attr = "device" -> "0x0571"
      [] base = "/sys/devices/pci0/00:1d.7" /\ attr = "vendor" -> "0x8086"
      [] base = "/sys/devices/pci0/00:1d.7" /\ attr = "device" -> "0x293a"
      [] base = "/sys/devices/pci0/00:1f.2" /\ attr = "vendor" -> "0x8086"
      [] base = "/sys/devices/pci0/00:1f.2" /\ attr = "device" -> "0x2922"
      [] base = "/sys/devices/pci0/00:0e.0" /\ attr = "vendor" -> "0x10de"
      [] base = "/sys/devices/pci0/00:0e.0" /\ attr = "device" -> "0x0266"
      [] base = "/sys/devices/pci0/00:1d.7/usb1" /\ attr = "idVendor" -> "1d6b"
      [] base = "/sys/devices/pci0/00:1d.7/usb1" /\ attr = "idProduct" -> "0002"
      [] base = "/sys/devices/pci0/00:1d.7/usb1/1-1" /\ attr = "idVendor" -> "152d"
      [] base = "/sys/devices/pci0/00:1d.7/usb1/1-1" /\ attr = "idProduct" -> "2329"
      \* a SCSI device node has a vendor file and no device file
      [] base = "/sys/devices/pci0/00:1f.1/ata1/host0/target0:0:0/0:0:0:0" /\ attr = "vendor" -> "hl-dt-st"
      [] base = "/sys/devices/pci0/00:1f.1/ata1/host0/target0:0:1/0:0:1:0" /\ attr = "vendor" -> "hl-dt-st"
      [] OTHER -> NoFile

(***************************************************************************)
(* device_drivers: the driver of every path prefix from depth 4 on that    *)
(* has a driver link, with [vendor:product] when both were read.           *)
(***************************************************************************)
\* lines 59-67: vendor and product after the first try block
PciPair(base) ==
    LET v == SysfsAttr(base, "vendor")
        p == SysfsAttr(base, "device")
    IN  IF v = NoFile THEN [vendor |-> PyNone, product |-> PyNone]
        ELSE IF p = NoFile THEN [vendor |-> Strip0x(v), product |-> PyNone]
        ELSE [vendor |-> Strip0x(v), product |-> Strip0x(p)]

\* a variant that reads the USB files only when the first block left no pair
UsbPairIfNoPci(base, before) ==
    LET v == SysfsAttr(base, "idVendor")
        p == SysfsAttr(base, "idProduct")
    IN  IF before.vendor # PyNone /\ before.product # PyNone THEN before
        ELSE IF v = NoFile THEN before
        ELSE IF p = NoFile THEN [before EXCEPT !.vendor = Strip0x(v)]
        ELSE [vendor |-> Strip0x(v), product |-> Strip0x(p)]

\* lines 69-75: the second try block assigns over what the first one left
UsbPair(base, before) ==
    LET v == SysfsAttr(base, "idVendor")
        p == SysfsAttr(base, "idProduct")
    IN  IF v = NoFile THEN before
        ELSE IF p = NoFile THEN [before EXCEPT !.vendor = Strip0x(v)]
        ELSE [vendor |-> Strip0x(v), product |-> Strip0x(p)]

\* a str is true when it is not empty; None is false
Truthy(s) == s # PyNone /\ s # ""

\* lines 53-80: one path depth that has a driver link
DriverEntry(base) ==
    LET driver == SysfsDriver(base)
        pair   == UsbPair(base, PciPair(base))
    IN  IF Truthy(pair.vendor) /\ Truthy(pair.product)
        THEN driver \o "[" \o pair.vendor \o ":" \o pair.product \o "]"
        ELSE driver

RECURSIVE DriversFrom(_, _)
DriversFrom(parts, n) ==
    IF n > Len(parts) THEN <<>>
    ELSE LET base == JoinBase(parts, n)
         IN  IF SysfsDriver(base) = NoFile
             THEN DriversFrom(parts, n + 1)
             ELSE <<DriverEntry(base)>> \o DriversFrom(parts, n + 1)

device_drivers(device) == DriversFrom(Split(device), 4)

(***************************************************************************)
(* The bus affinity predicates and the sort key.                           *)
(***************************************************************************)
is_usb(device) == Contains(device, "/usb")

is_pata(device, drivers) ==
    \E i \in 1..Len(drivers) : StartsWith(drivers[i], "pata")

is_sata(device, drivers) ==
    \E i \in 1..Len(drivers) : StartsWith(drivers[i], "sata")

\* a variant that tests the SATA affinity before the PATA affinity
device_sort_key_sata_first(device) ==
    IF is_usb(device) THEN [cls |-> "usb", path |-> device]
    ELSE LET drivers == device_drivers(device)
         IN  IF is_sata(device, drivers) THEN [cls |-> "sata", path |-> device]
             ELSE IF is_pata(device, drivers) THEN [cls |-> "pata", path |-> device]
             ELSE [cls |-> PyNone, path |-> device]

\* the tuple (class, device); the class of an unclassified device is None
device_sort_key(device) ==
    IF is_usb(device) THEN [cls |-> "usb", path |-> device]
    ELSE LET drivers == device_drivers(device)
         IN  IF is_pata(device, drivers) THEN [cls |-> "pata", path |-> device]
             ELSE IF is_sata(device, drivers) THEN [cls |-> "sata", path |-> device]
             ELSE [cls |-> PyNone, path |-> device]

\* a variant that leaves the loop at the first part that starts with "ata"
RECURSIVE AtaChannelFirst(_, _, _)
AtaChannelFirst(parts, k, ata) ==
    IF k > Len(parts) THEN ata
    ELSE IF StartsWith(parts[k], "ata") THEN " " \o parts[k]
    ELSE AtaChannelFirst(parts, k + 1, ata)

\* lines 244-248: the loop runs over every part from index 4 on and assigns
\* `ata` at each part that starts with "ata" (Python index n is part n + 1 here)
RECURSIVE AtaChannel(_, _, _)
AtaChannel(parts, k, ata) ==
    IF k > Len(parts) THEN ata
    ELSE AtaChannel(parts, k + 1,
                    IF StartsWith(parts[k], "ata") THEN " " \o parts[k] ELSE ata)

\* lines 239-250; device_sort_key is called with the drivers already read
device_type(device) ==
    LET drivers == device_drivers(device)
    IN  IF is_pata(device, drivers)
        THEN device_sort_key(device).cls \o AtaChannel(Split(device), 5, "")
               \o (IF Contains(device, ":1:0/block") THEN " slave" ELSE " master")
        ELSE device_sort_key(device).cls

(***************************************************************************)
(* sorted(..., key=device_sort_key).  Python compares two key tuples by    *)
(* their first differing element; `<` between None and a str raises        *)
(* TypeError.  The outcome of a comparison is "lt", "ge" or "TypeError".   *)
(***************************************************************************)
KeyLess(a, b) ==
    IF a.cls # b.cls
    THEN IF a.cls = PyNone \/ b.cls = PyNone THEN "TypeError"
         ELSE IF StrLess(a.cls, b.cls) THEN "lt" ELSE "ge"
    ELSE IF StrLess(a.path, b.path) THEN "lt" ELSE "ge"

\* insert x into the sorted list, after the elements that are not greater (stable)
RECURSIVE InsertSorted(_, _, _)
InsertSorted(sorted, x, j) ==
    IF j = 0 THEN [err |-> FALSE, list |-> <<x>> \o sorted]
    ELSE LET c == KeyLess(device_sort_key(x), device_sort_key(sorted[j]))
         IN  IF c = "TypeError" THEN [err |-> TRUE, list |-> <<>>]
             ELSE IF c = "lt" THEN InsertSorted(sorted, x, j - 1)
             ELSE [err |-> FALSE,
                   list |-> SubSeq(sorted, 1, j) \o <<x>> \o SubSeq(sorted, j + 1, Len(sorted))]

RECURSIVE SortPrefix(_, _)
SortPrefix(list, n) ==
    IF n = 0 THEN [err |-> FALSE, list |-> <<>>]
    ELSE LET before == SortPrefix(list, n - 1)
         IN  IF before.err THEN before
             ELSE InsertSorted(before.list, list[n], Len(before.list))

\* line 266: the sorted device list, or err when a comparison raised TypeError
SortedDevices(list) == SortPrefix(list, Len(list))


(***************************************************************************)
(* The state of the program and of what it acts on.                        *)
(***************************************************************************)
VARIABLES
    globbed,     \* the real paths listed by the glob of line 266, in the glob's order
    file,        \* timings.pickle: whether it exists and the mapping it holds
    devices,     \* the list `devices`
    args,        \* the parsed command line
    pc,          \* the statement the main process is at
    error,       \* the exception that ended the main process, "" when none
    poolSize,    \* the number of worker processes of the pool, 0 before the pool exists
    inMap,       \* the main process is inside pool.map, waiting for the results
    tasks,       \* the operations of the pool.map in progress, in list order
    mapResult,   \* the list the last pool.map returned
    timings,     \* the mapping `timings` of the main program
    ref,         \* reference_timings: its device list, loop position and step
    refTimings,  \* reference_timings: its local mapping `timings`
    mainOp,      \* the operation the main process itself executes (reference capture)
    refTrace,    \* history: the steps reference_timings has completed, in order
    done,        \* history: the <<category, device>> operations that returned
    raised,      \* history: the <<category, device, exception>> operations that raised
    call,        \* a call of device_drivers, device_sort_key or device_type on its
                 \* own: the function, the device and the value returned
    loaded       \* history: "unread" before line 293, then "file" or "missing" as
                 \* timings.pickle existed or not when it was opened

vars == <<sysfs, call, loaded, globbed, file, devices, args, pc, error, poolSize, inMap, tasks,
          mapResult, timings, ref, refTimings, mainOp, refTrace, done, raised>>

\* an empty dict; None where a dict is expected is modelled by it too (both are false)
EmptyDict == [k \in {} |-> 0]

\* time.sleep(5) of lines 256 and 258
SettleSeconds == 5

\* the phase timings one eject and one close leave in a baseline entry, in ticks:
\* open and close take a tick, the device-control call takes d ticks
EjectTimings(d) ==
    [eject_total |-> d + 2, eject_open |-> 1, eject_ioctl |-> d, eject_close |-> 1]

CloseTimings(d) ==
    [close_total |-> d + 2, close_open |-> 1, close_ioctl |-> d, close_close |-> 1]

\* dict.update: the keys of `new` override those of `old`
DictUpdate(old, new) == new @@ old

\* pickle.dump of the mapping (line 303): the stream holds one item per device
\* key and one per <<device, field, value>> of the device's dict
PickleDump(mapping) ==
    { <<d>> : d \in DOMAIN mapping }
      \cup UNION { { <<d, k, mapping[d][k]>> : k \in DOMAIN mapping[d] } : d \in DOMAIN mapping }

\* pickle.load (line 295): the dict rebuilt from the items of the stream
PickleLoad(stream) ==
    LET keys == { it[1] : it \in { x \in stream : Len(x) = 1 } }
        Items(d) == { x \in stream : Len(x) = 3 /\ x[1] = d }
    IN  [d \in keys |->
            [k \in { x[2] : x \in Items(d) } |->
                (CHOOSE x \in Items(d) : x[2] = k)[3]]]

\* what timings.pickle can hold when the program starts: nothing, or the capture
\* of an earlier --reference run on the PATA master, taken when the drive was slower
InitialFiles ==
    { [exists |-> FALSE, data |-> {}],
      [exists |-> TRUE,
       data |-> PickleDump([d \in {PataMaster} |->
                    DictUpdate(EjectTimings(TrayTicks("eject", d) + 1),
                               CloseTimings(TrayTicks("close", d) + 1))])] }

\* the sequences without repetition over a set: the orders a glob can list it in
RECURSIVE Orders(_)
Orders(S) ==
    IF S = {} THEN {<<>>}
    ELSE UNION { { <<x>> \o o : o \in Orders(S \ {x}) } : x \in S }

Range(seq) == { seq[i] : i \in 1..Len(seq) }

\* the command line before it is parsed
NoArgs ==
    [reference |-> FALSE, sequential |-> FALSE, eject |-> FALSE, eject_usb |-> FALSE,
     close |-> FALSE, close_usb |-> FALSE, lock |-> FALSE, unlock |-> FALSE,
     filter |-> {}]

\* a drive name no device of the machine has
AbsentName == "sr9"

\* the command lines: every combination of the eight flags, and for --filter
\* no option (the empty set), any names of discovered drives, or an absent name
ArgChoices(devs) ==
    [reference : BOOLEAN, sequential : BOOLEAN, eject : BOOLEAN, eject_usb : BOOLEAN,
     close : BOOLEAN, close_usb : BOOLEAN, lock : BOOLEAN, unlock : BOOLEAN,
     filter : (SUBSET { BaseName(d) : d \in Range(devs) }) \cup {{AbsentName}}]

(***************************************************************************)
(* One device operation (tray_eject, tray_close, door_lock, door_unlock),  *)
(* as the record of its frame: the operation, its arguments, where it is,  *)
(* the value of `ret`, the measured duration of the device-control call,   *)
(* the exception that ended it, the system calls it has made on its        *)
(* descriptor (phases) and the reference values it has printed (refs).     *)
(***************************************************************************)
NewOp(op, device, baseline) ==
    [op |-> op, device |-> device, timings |-> baseline,
     st |-> "queued", ret |-> "", dur |-> 0, exc |-> "",
     phases |-> <<>>, refs |-> <<>>]

NoOp == [op |-> "none", device |-> "", timings |-> EmptyDict,
         st |-> "idle", ret |-> "", dur |-> 0, exc |-> "",
         phases |-> <<>>, refs |-> <<>>]

\* format_td (lines 90-94): the sign and the magnitude of a difference
format_td(td) ==
    IF td < 0 THEN [sign |-> "-", td |-> 0 - td] ELSE [sign |-> "+", td |-> td]

\* the empty string printed in place of a reference value
NoReference == [sign |-> "", td |-> 0]

\* `if timings` of lines 108, 118, 124 and 128: None and {} are both false
HasBaseline(baseline) == baseline # EmptyDict

\* format_td(measured - timings[key]) if timings else "" (lines 108, 118, 124,
\* 128 and 144, 154, 160, 164); the door operations print no reference
Reference(t, phase, measured) ==
    IF t.op \notin {"eject", "close"} THEN <<>>
    ELSE IF HasBaseline(t.timings)
    THEN << format_td(measured - t.timings[t.op \o "_" \o phase]) >>
    ELSE << NoReference >>

\* the first uprint of the operation (lines 100, 136, 170, 189): print has
\* written the line, sys.stdout.flush() has not run yet
OpBegin(t) == [t EXCEPT !.st = "begun"]

\* the flush, the "-- Opening" line and os.open (lines 103-108, 139-144, 173-175,
\* 192-194): a descriptor, or the exception of a node that is gone
OpOpen(t, ok) ==
    IF ok THEN [t EXCEPT !.st = "opened", !.phases = Append(@, "open"),
                         !.refs = @ \o Reference(t, "open", 1)]
    ELSE [t EXCEPT !.st = "raised", !.exc = "FileNotFoundError"]

\* the device-control call in its try block (lines 110-118, 146-154, 176-179,
\* 195-198): ret is the call's result 0, or the OSError it raised
OpIoctl(t, r, d) ==
    [t EXCEPT !.st = "ioctled", !.ret = r, !.dur = d,
              !.phases = Append(@, "ioctl"),
              !.refs = @ \o Reference(t, "ioctl", d)]

\* f"0x{ret:x}" of the last uprint: an int formats, an OSError raises TypeError
FormatRetRaises(ret) == ret = "OSError"

\* a variant that formats the last line before it closes the descriptor
OpFinishFormatFirst(t) ==
    IF FormatRetRaises(t.ret)
    THEN [t EXCEPT !.st = "raised", !.exc = "TypeError"]
    ELSE [t EXCEPT !.st = "returned", !.phases = Append(@, "close"),
                   !.refs = @ \o Reference(t, "close", 1) \o Reference(t, "total", t.dur + 2)]

\* os.close, the "-- Closed" line and the last uprint (lines 120-130, 156-166,
\* 180-185, 199-204): the descriptor is closed before the last line is
\* formatted, and a last line that cannot be formatted prints no total
OpFinish(t) ==
    LET closed == [t EXCEPT !.phases = Append(@, "close"),
                            !.refs = @ \o Reference(t, "close", 1)]
    IN  IF FormatRetRaises(t.ret)
        THEN [closed EXCEPT !.st = "raised", !.exc = "TypeError"]
        ELSE [closed EXCEPT !.st = "returned",
                            !.refs = @ \o Reference(t, "total", t.dur + 2)]

\* the value the operation returns (lines 130 and 166; the door operations return None)
OpResult(t) ==
    CASE t.op = "eject" -> EjectTimings(t.dur)
      [] t.op = "close" -> CloseTimings(t.dur)
      [] OTHER -> EmptyDict

\* stop_ioctl - start_ioctl as the operation measures it; the door operations
\* do not measure it
IoctlDuration(op, device) ==
    IF op \in {"eject", "close"} THEN TrayTicks(op, device) ELSE 0

\* the operation holds an open descriptor of its device: os.open has returned
\* and os.close has not been called
HoldsFd(t) ==
    /\ \E k \in 1..Len(t.phases) : t.phases[k] = "open"
    /\ \A k \in 1..Len(t.phases) : t.phases[k] # "close"

\* the operation has started and not ended
InProgress(t) == t.st \in {"begun", "opened", "ioctled"}

Ended(t) == t.st \in {"returned", "raised"}

\* the operation is inside uprint: between the print and the flush of a line
InUprint(t) == t.st = "begun"


(***************************************************************************)
(* The main program, lines 262-312.                                        *)
(***************************************************************************)
\* the statements of the main program that the model stops at, in order
NextStatement(at) ==
    CASE at = "sort"      -> "parse"
      [] at = "parse"     -> "pool"
      [] at = "pool"      -> "filter"
      [] at = "filter"    -> "unlock"
      [] at = "unlock"    -> "load"
      [] at = "load"      -> "reference"
      [] at = "reference" -> "eject"
      [] at = "eject"     -> "close"
      [] at = "close"     -> "lock"
      [] at = "lock"      -> "exit"

\* the statements that are a pool.map, in program order
MapCategories == <<"unlock", "eject", "close", "lock">>

\* a variant that ignores --sequential
ProcessesOnePerDevice(a, devs) == Len(devs)

\* processes= of line 281
Processes(a, devs) == IF a.sequential THEN 1 ELSE Len(devs)

\* lines 287-288
FilterDevices(devs, a) ==
    IF a.filter # {}
    THEN LET Named(d) == BaseName(d) \in a.filter IN SelectSeq(devs, Named)
    ELSE devs

\* the conditions of lines 290, 305, 308 and 311
Requested(cat, a) ==
    CASE cat = "unlock" -> a.unlock
      [] cat = "eject"  -> a.eject \/ a.eject_usb
      [] cat = "close"  -> a.close \/ a.close_usb
      [] cat = "lock"   -> a.lock

\* a variant in which a filter does not lift the bus condition of the flags
TrayFilterByBus(d, plain, usb, a) ==
    \/ plain /\ ~is_usb(d)
    \/ usb /\ is_usb(d)

\* the lambda of line 306 (eject) and of line 309 (close)
TrayFilter(d, plain, usb, a) ==
    \/ plain /\ ~is_usb(d)
    \/ usb /\ is_usb(d)
    \/ (plain \/ usb) /\ a.filter # {}

\* a variant that builds the tray lists per flag and joins them
SelectedPerFlag(cat, devs, a) ==
    CASE cat = "eject" ->
           LET Plain(d) == TrayFilter(d, a.eject, FALSE, a)
               Usb(d) == TrayFilter(d, FALSE, a.eject_usb, a)
           IN  SelectSeq(devs, Plain) \o SelectSeq(devs, Usb)
      [] cat = "close" ->
           LET Plain(d) == TrayFilter(d, a.close, FALSE, a)
               Usb(d) == TrayFilter(d, FALSE, a.close_usb, a)
           IN  SelectSeq(devs, Plain) \o SelectSeq(devs, Usb)
      [] OTHER -> devs

\* the device list a category's pool.map is given (lines 291, 306, 309, 312)
Selected(cat, devs, a) ==
    CASE cat = "eject" ->
           LET Keep(d) == TrayFilter(d, a.eject, a.eject_usb, a) IN SelectSeq(devs, Keep)
      [] cat = "close" ->
           LET Keep(d) == TrayFilter(d, a.close, a.close_usb, a) IN SelectSeq(devs, Keep)
      [] OTHER -> devs

\* a variant that falls back on the entry of another device
DictGetOrAny(dict, d) ==
    IF d \in DOMAIN dict THEN dict[d]
    ELSE IF DOMAIN dict # {} THEN dict[CHOOSE k \in DOMAIN dict : TRUE]
    ELSE EmptyDict

\* dict.get(device): the entry, or None
DictGet(dict, d) == IF d \in DOMAIN dict THEN dict[d] ELSE EmptyDict

\* the argument list of a category's pool.map: (device, timings.get(device)) for
\* eject and close, the device alone for the door operations
MapTasks(cat, devs, a, baseline) ==
    LET sel == Selected(cat, devs, a)
    IN  [i \in 1..Len(sel) |->
            NewOp(cat, sel[i],
                  IF cat \in {"eject", "close"} THEN DictGet(baseline, sel[i]) ELSE EmptyDict)]

\* a variant that captures every device
ReferenceAllDevices(devs) == devs

\* the filter of line 300
ReferenceDevices(devs) ==
    LET NotUsb(d) == ~is_usb(d) IN SelectSeq(devs, NotUsb)

\* lines 293-297
LoadedTimings(f) == IF f.exists THEN PickleLoad(f.data) ELSE EmptyDict

\* a variant that captures and dumps in every run
AlwaysCaptures(a) == TRUE

\* line 299: the capture and the dump run under --reference only
CapturesReference(a) == a.reference

NoResult == [cat |-> "none", values |-> <<>>]

NoRef == [list |-> <<>>, i |-> 0, step |-> "idle"]

\* an uncaught exception ends the main process (the with block terminates the pool)
Abort(exc) == pc' = "aborted" /\ error' = exc

\* line 266
DiscoverSort ==
    /\ pc = "sort"
    /\ LET r == SortedDevices(globbed)
       IN  IF r.err
           THEN Abort("TypeError") /\ devices' = devices
           ELSE devices' = r.list /\ pc' = NextStatement(pc) /\ error' = error
    /\ globbed' = <<>>
    /\ UNCHANGED <<sysfs, call, loaded, file, args, poolSize, inMap, tasks, mapResult, timings, ref,
                   refTimings, mainOp, refTrace, done, raised>>

\* line 279
ParseArgs ==
    /\ pc = "parse"
    /\ args' \in ArgChoices(devices)
    /\ pc' = NextStatement(pc)
    /\ UNCHANGED <<sysfs, call, loaded, globbed, file, devices, error, poolSize, inMap, tasks, mapResult,
                   timings, ref, refTimings, mainOp, refTrace, done, raised>>

\* line 281: mp.Pool raises ValueError for processes < 1
CreatePool ==
    /\ pc = "pool"
    /\ IF Processes(args, devices) < 1
       THEN Abort("ValueError") /\ UNCHANGED poolSize
       ELSE /\ poolSize' = Processes(args, devices)
            /\ pc' = NextStatement(pc)
            /\ error' = error
    /\ UNCHANGED <<sysfs, call, loaded, globbed, file, devices, args, inMap, tasks, mapResult, timings, ref,
                   refTimings, mainOp, refTrace, done, raised>>

\* lines 282-288: the device listing (printed by the main process alone) and
\* the filter
ApplyFilter ==
    /\ pc = "filter"
    /\ devices' = FilterDevices(devices, args)
    /\ pc' = NextStatement(pc)
    /\ UNCHANGED <<sysfs, call, loaded, globbed, file, args, error, poolSize, inMap, tasks, mapResult, timings, ref,
                   refTimings, mainOp, refTrace, done, raised>>

AtMap == \E k \in 1..Len(MapCategories) : MapCategories[k] = pc

\* lines 290, 305, 308, 311 when the condition is false
SkipMap ==
    /\ AtMap /\ ~inMap
    /\ ~Requested(pc, args)
    /\ pc' = NextStatement(pc)
    /\ mapResult' = NoResult
    /\ UNCHANGED <<sysfs, call, loaded, globbed, file, devices, args, error, poolSize, inMap, tasks,
                   timings, ref, refTimings, mainOp, refTrace, done, raised>>

\* lines 291, 306, 309, 312: pool.map queues one task per selected device
\* (with at most four operations per worker every chunk is one operation)
MapSubmit ==
    /\ AtMap /\ ~inMap
    /\ Requested(pc, args)
    /\ tasks' = MapTasks(pc, devices, args, timings)
    /\ inMap' = TRUE
    /\ mapResult' = NoResult
    /\ UNCHANGED <<sysfs, call, loaded, globbed, file, devices, args, pc, error, poolSize, timings, ref,
                   refTimings, mainOp, refTrace, done, raised>>

\* a variant that returns as soon as one task has ended
MapReadyFirstDone(ts) == Len(ts) = 0 \/ \E i \in 1..Len(ts) : Ended(ts[i])

\* a variant with a timeout: the map returns whether its tasks have ended or not
MapReadyOrTimeout(ts) == TRUE

\* pool.map blocks until every task of the map has ended
MapReady(ts) == \A i \in 1..Len(ts) : Ended(ts[i])

\* a variant that drops the exceptions of the tasks
MapNeverRaises(ts) == FALSE

\* pool.map re-raises a task's exception in the main process
MapRaises(ts) == \E i \in 1..Len(ts) : ts[i].st = "raised"

\* pool.map returns the results in list order, or raises
MapReturn ==
    /\ inMap
    /\ MapReady(tasks)
    /\ inMap' = FALSE
    /\ IF MapRaises(tasks)
       THEN /\ \E i \in 1..Len(tasks) : tasks[i].st = "raised" /\ Abort(tasks[i].exc)
            /\ UNCHANGED <<tasks, mapResult>>
       ELSE /\ mapResult' = [cat |-> pc, values |-> [i \in 1..Len(tasks) |-> OpResult(tasks[i])]]
            /\ tasks' = <<>>
            /\ pc' = NextStatement(pc)
            /\ error' = error
    /\ UNCHANGED <<sysfs, call, loaded, globbed, file, devices, args, poolSize, timings, ref, refTimings,
                   mainOp, refTrace, done, raised>>

\* lines 293-297
LoadTimings ==
    /\ pc = "load"
    /\ timings' = LoadedTimings(file)
    /\ loaded' = IF file.exists THEN "file" ELSE "missing"
    /\ pc' = NextStatement(pc)
    /\ mapResult' = NoResult
    /\ UNCHANGED <<sysfs, call, globbed, file, devices, args, error, poolSize, inMap, tasks, ref,
                   refTimings, mainOp, refTrace, done, raised>>

\* line 299 when --reference was not given
SkipReference ==
    /\ pc = "reference"
    /\ ~CapturesReference(args)
    /\ pc' = NextStatement(pc)
    /\ UNCHANGED <<sysfs, call, loaded, globbed, file, devices, args, error, poolSize, inMap, tasks,
                   mapResult, timings, ref, refTimings, mainOp, refTrace, done, raised>>

(***************************************************************************)
(* reference_timings, lines 252-260, run by the main process.              *)
(***************************************************************************)
\* line 300 calls it with the devices that are not USB; line 253
RefEnter ==
    /\ pc = "reference"
    /\ CapturesReference(args)
    /\ ref.step = "idle"
    /\ ref' = [list |-> ReferenceDevices(devices), i |-> 1, step |-> "eject"]
    /\ refTimings' = EmptyDict
    /\ UNCHANGED <<sysfs, call, loaded, globbed, file, devices, args, pc, error, poolSize, inMap, tasks,
                   mapResult, timings, mainOp, refTrace, done, raised>>

\* lines 255 and 257: tray_eject((device, None)), tray_close((device, None))
RefCall ==
    /\ pc = "reference"
    /\ ref.step \in {"eject", "close"}
    /\ ref.i <= Len(ref.list)
    /\ mainOp.st = "idle"
    /\ mainOp' = OpBegin(NewOp(ref.step, ref.list[ref.i], EmptyDict))
    /\ UNCHANGED <<sysfs, call, loaded, globbed, file, devices, args, pc, error, poolSize, inMap, tasks,
                   mapResult, timings, ref, refTimings, refTrace, done, raised>>

MainOpen ==
    /\ pc = "reference"
    /\ mainOp.st = "begun"
    /\ \E ok \in BOOLEAN :
         /\ mainOp' = OpOpen(mainOp, ok)
         /\ IF ok
            THEN UNCHANGED <<pc, error, raised>>
            ELSE /\ Abort(mainOp'.exc)
                 /\ raised' = raised \cup {<<"ref_" \o mainOp.op, mainOp.device, mainOp'.exc>>}
    /\ UNCHANGED <<sysfs, call, loaded, globbed, file, devices, args, poolSize, inMap, tasks, mapResult,
                   timings, ref, refTimings, refTrace, done>>

MainIoctl ==
    /\ pc = "reference"
    /\ mainOp.st = "opened"
    /\ \E r \in {"0", "OSError"} :
         mainOp' = OpIoctl(mainOp, r, IoctlDuration(mainOp.op, mainOp.device))
    /\ UNCHANGED <<sysfs, call, loaded, globbed, file, devices, args, pc, error, poolSize, inMap, tasks,
                   mapResult, timings, ref, refTimings, refTrace, done, raised>>

\* the operation returns into line 255 or 257, which stores its result
MainFinish ==
    /\ pc = "reference"
    /\ mainOp.st = "ioctled"
    /\ LET t == OpFinish(mainOp)
           d == mainOp.device
       IN  IF t.st = "raised"
           THEN /\ mainOp' = t
                /\ Abort(t.exc)
                /\ raised' = raised \cup {<<"ref_" \o t.op, d, t.exc>>}
                /\ UNCHANGED <<ref, refTimings, refTrace, done>>
           ELSE /\ mainOp' = NoOp
                /\ refTimings' =
                     IF t.op = "eject"
                     THEN [k \in DOMAIN refTimings \cup {d} |->
                             IF k = d THEN OpResult(t) ELSE refTimings[k]]
                     ELSE [refTimings EXCEPT ![d] = DictUpdate(@, OpResult(t))]
                /\ ref' = [ref EXCEPT !.step = IF t.op = "eject" THEN "sleep1" ELSE "sleep2"]
                /\ refTrace' = Append(refTrace, [step |-> t.op, device |-> d, secs |-> 0])
                /\ done' = done \cup {<<"ref_" \o t.op, d>>}
                /\ UNCHANGED <<pc, error, raised>>
    /\ UNCHANGED <<sysfs, call, loaded, globbed, file, devices, args, poolSize, inMap, tasks, mapResult,
                   timings>>

\* lines 256 and 258
RefSleep ==
    /\ pc = "reference"
    /\ ref.step \in {"sleep1", "sleep2"}
    /\ ref' = IF ref.step = "sleep1"
              THEN [ref EXCEPT !.step = "close"]
              ELSE [ref EXCEPT !.step = "eject", !.i = @ + 1]
    /\ refTrace' = Append(refTrace,
                     [step |-> "sleep", device |-> ref.list[ref.i], secs |-> SettleSeconds])
    /\ UNCHANGED <<sysfs, call, loaded, globbed, file, devices, args, pc, error, poolSize, inMap, tasks,
                   mapResult, timings, refTimings, mainOp, done, raised>>

\* a variant that dumps the mapping that was loaded, not the captured one
RefSaveLoaded ==
    /\ pc = "reference"
    /\ ref.step = "eject"
    /\ ref.i > Len(ref.list)
    /\ timings' = refTimings
    /\ file' = [exists |-> TRUE, data |-> PickleDump(timings)]
    /\ ref' = [ref EXCEPT !.step = "returned"]
    /\ pc' = NextStatement(pc)
    /\ UNCHANGED <<sysfs, call, loaded, globbed, devices, args, error, poolSize, inMap, tasks,
                   mapResult, refTimings, mainOp, refTrace, done, raised>>

\* line 260 returns into line 300; lines 302-303 dump the mapping
RefSave ==
    /\ pc = "reference"
    /\ ref.step = "eject"
    /\ ref.i > Len(ref.list)
    /\ timings' = refTimings
    /\ file' = [exists |-> TRUE, data |-> PickleDump(refTimings)]
    /\ ref' = [ref EXCEPT !.step = "returned"]
    /\ pc' = NextStatement(pc)
    /\ UNCHANGED <<sysfs, call, loaded, globbed, devices, args, error, poolSize, inMap, tasks, mapResult,
                   refTimings, mainOp, refTrace, done, raised>>

(***************************************************************************)
(* The pool workers: each takes the next queued task and runs its          *)
(* operation.                                                              *)
(***************************************************************************)
BusyWorkers(ts) == Cardinality({ i \in 1..Len(ts) : InProgress(ts[i]) })

\* a variant in which a task never waits for a worker
WorkerAlwaysFree(ts, size) == TRUE

\* a worker process is waiting on the task queue
WorkerFree(ts, size) == BusyWorkers(ts) < size

\* a variant that hands out the queued tasks in any order
AnyQueued(ts, i) == ts[i].st = "queued"

\* the task queue is first in, first out
NextQueued(ts, i) == ts[i].st = "queued" /\ \A j \in 1..(i - 1) : ts[j].st # "queued"

Begin(i) ==
    /\ inMap
    /\ NextQueued(tasks, i)
    /\ WorkerFree(tasks, poolSize)
    /\ tasks' = [tasks EXCEPT ![i] = OpBegin(@)]
    /\ UNCHANGED <<sysfs, call, loaded, globbed, file, devices, args, pc, error, poolSize, inMap, mapResult,
                   timings, ref, refTimings, mainOp, refTrace, done, raised>>

Open(i) ==
    /\ inMap
    /\ tasks[i].st = "begun"
    /\ \E ok \in BOOLEAN :
         /\ tasks' = [tasks EXCEPT ![i] = OpOpen(@, ok)]
         /\ raised' = IF ok THEN raised
                      ELSE raised \cup {<<pc, tasks[i].device, tasks'[i].exc>>}
    /\ UNCHANGED <<sysfs, call, loaded, globbed, file, devices, args, pc, error, poolSize, inMap, mapResult,
                   timings, ref, refTimings, mainOp, refTrace, done>>

Ioctl(i) ==
    /\ inMap
    /\ tasks[i].st = "opened"
    /\ \E r \in {"0", "OSError"} :
         tasks' = [tasks EXCEPT ![i] = OpIoctl(@, r, IoctlDuration(@.op, @.device))]
    /\ UNCHANGED <<sysfs, call, loaded, globbed, file, devices, args, pc, error, poolSize, inMap, mapResult,
                   timings, ref, refTimings, mainOp, refTrace, done, raised>>

Finish(i) ==
    /\ inMap
    /\ tasks[i].st = "ioctled"
    /\ tasks' = [tasks EXCEPT ![i] = OpFinish(@)]
    /\ IF tasks'[i].st = "returned"
       THEN done' = done \cup {<<pc, tasks[i].device>>} /\ raised' = raised
       ELSE raised' = raised \cup {<<pc, tasks[i].device, tasks'[i].exc>>} /\ done' = done
    /\ UNCHANGED <<sysfs, call, loaded, globbed, file, devices, args, pc, error, poolSize, inMap, mapResult,
                   timings, ref, refTimings, mainOp, refTrace>>

(***************************************************************************)
(* The specifications.                                                     *)
(***************************************************************************)
\* the devices of the machine: any of the first MaxDevices of SysDevices
Machine == { SysDevices[i] : i \in 1..MaxDevices }

NoCall == [fn |-> "none", device |-> "", value |-> ""]

InitProgram ==
    /\ loaded = "unread"
    /\ devices = <<>>
    /\ args = NoArgs
    /\ pc = "sort"
    /\ error = ""
    /\ poolSize = 0
    /\ inMap = FALSE
    /\ tasks = <<>>
    /\ mapResult = NoResult
    /\ timings = EmptyDict
    /\ ref = NoRef
    /\ refTimings = EmptyDict
    /\ mainOp = NoOp
    /\ refTrace = <<>>
    /\ done = {}
    /\ raised = {}

Init ==
    /\ sysfs = NoOverlay
    /\ call = NoCall
    /\ globbed \in UNION { Orders(S) : S \in SUBSET Machine }
    /\ file \in InitialFiles
    /\ InitProgram

Next ==
    \/ DiscoverSort
    \/ ParseArgs
    \/ CreatePool
    \/ ApplyFilter
    \/ SkipMap
    \/ MapSubmit
    \/ MapReturn
    \/ LoadTimings
    \/ SkipReference
    \/ RefEnter
    \/ RefCall
    \/ MainOpen
    \/ MainIoctl
    \/ MainFinish
    \/ RefSleep
    \/ RefSave
    \/ \E i \in 1..Len(tasks) : Begin(i)
    \/ \E i \in 1..Len(tasks) : Open(i)
    \/ \E i \in 1..Len(tasks) : Ioctl(i)
    \/ \E i \in 1..Len(tasks) : Finish(i)

Spec == Init /\ [][Next]_vars

\* the program when no call blocks for ever and every process keeps being
\* scheduled: a step that can be taken is eventually taken.  NextRun is every
\* step after the sort of line 266.
NextRun ==
    \/ ParseArgs
    \/ CreatePool
    \/ ApplyFilter
    \/ SkipMap
    \/ MapSubmit
    \/ MapReturn
    \/ LoadTimings
    \/ SkipReference
    \/ RefEnter
    \/ RefCall
    \/ MainOpen
    \/ MainIoctl
    \/ MainFinish
    \/ RefSleep
    \/ RefSave
    \/ \E i \in 1..Len(tasks) : Begin(i)
    \/ \E i \in 1..Len(tasks) : Open(i)
    \/ \E i \in 1..Len(tasks) : Ioctl(i)
    \/ \E i \in 1..Len(tasks) : Finish(i)

\* a machine with any of the first MaxFairDevices drives and no timings file
InitFair ==
    /\ sysfs = NoOverlay
    /\ call = NoCall
    /\ globbed \in UNION { Orders(S) : S \in SUBSET { SysDevices[i] : i \in 1..MaxFairDevices } }
    /\ file = [exists |-> FALSE, data |-> {}]
    /\ InitProgram

\* the main process gets past line 266 (the step is always possible there), and
\* any later step of the main process or of a worker that stays possible is taken
SpecFair == InitFair /\ [][Next]_vars /\ WF_vars(NextRun) /\ <>(pc # "sort")

\* the sort alone, over the input orders of up to MaxSort of the five drives
InitSort ==
    /\ sysfs = NoOverlay
    /\ call = NoCall
    /\ globbed \in UNION { Orders(S) :
                           S \in { T \in SUBSET Range(SysDevices) : Cardinality(T) <= MaxSort } }
    /\ file = [exists |-> FALSE, data |-> {}]
    /\ InitProgram

NextSort == DiscoverSort

SpecSort == InitSort /\ [][NextSort]_vars

(***************************************************************************)
(* device_sort_key and device_type on their own, over sysfs trees in which *)
(* the controller and the SCSI device of a drive are bound to any of the   *)
(* drivers, and over paths with an "ata" part before index 4 and with two  *)
(* "ata" parts.                                                            *)
(***************************************************************************)
AtaEarly == "/sys/devices/ata0/00:1f.1/ata1/host0/target0:0:0/0:0:0:0/block/sr5"
AtaTwice == "/sys/devices/pci0/00:1f.1/ata1/ata2/host0/target0:0:1/0:0:1:0/block/sr6"

ClassifiedDevices == Range(SysDevices) \cup {AtaEarly, AtaTwice}

\* what a driver link of the tree can point to; NoFile: there is no link
DriverChoices == {NoFile, "pata_via", "sata_nv", "ahci"}

\* the directory of the controller and of the SCSI device on the path
ControllerNode(device) == JoinBase(Split(device), 5)
ScsiNode(device) == JoinBase(Split(device), Len(Split(device)) - 2)

NoProgram ==
    /\ globbed = <<>>
    /\ file = [exists |-> FALSE, data |-> {}]
    /\ InitProgram

InitClassify ==
    /\ \E d \in ClassifiedDevices, c \in DriverChoices, n \in DriverChoices :
         /\ call = [fn |-> "none", device |-> d, value |-> ""]
         /\ sysfs = (<<ControllerNode(d), "driver">> :> c)
                       @@ (<<ScsiNode(d), "driver">> :> n)
    /\ NoProgram

\* device_sort_key(device)[0]
CallSortKey ==
    /\ call.fn = "none"
    /\ call' = [call EXCEPT !.fn = "device_sort_key",
                            !.value = device_sort_key(call.device).cls]
    /\ UNCHANGED <<sysfs, loaded, globbed, file, devices, args, pc, error, poolSize, inMap,
                   tasks, mapResult, timings, ref, refTimings, mainOp, refTrace, done,
                   raised>>

\* device_type(device), as the last line of a tray operation prints it
CallType ==
    /\ call.fn = "none"
    /\ call' = [call EXCEPT !.fn = "device_type", !.value = device_type(call.device)]
    /\ UNCHANGED <<sysfs, loaded, globbed, file, devices, args, pc, error, poolSize, inMap,
                   tasks, mapResult, timings, ref, refTimings, mainOp, refTrace, done,
                   raised>>

NextClassify == CallSortKey \/ CallType

(***************************************************************************)
(* device_drivers on its own, over the files the directory of a drive's    *)
(* controller can hold: a driver link, the PCI files vendor and device,    *)
(* the USB files idVendor and idProduct, each present or not, and files    *)
(* whose content is empty once "0x" is removed.                            *)
(***************************************************************************)
InitDrivers ==
    /\ \E d \in {PataMaster, SataDrive},
          dr \in {NoFile, "pata_via"},
          v \in {NoFile, "0x1106", "0x"}, p \in {NoFile, "0x0571"},
          iv \in {NoFile, "152d"}, ip \in {NoFile, "2329", "0x"} :
         /\ call = [fn |-> "none", device |-> d, value |-> <<>>]
         /\ sysfs = (<<ControllerNode(d), "driver">> :> dr)
                       @@ (<<ControllerNode(d), "vendor">> :> v)
                       @@ (<<ControllerNode(d), "device">> :> p)
                       @@ (<<ControllerNode(d), "idVendor">> :> iv)
                       @@ (<<ControllerNode(d), "idProduct">> :> ip)
    /\ NoProgram

\* device_drivers(device), as the device listing prints it (line 87)
CallDrivers ==
    /\ call.fn = "none"
    /\ call' = [call EXCEPT !.fn = "device_drivers", !.value = device_drivers(call.device)]
    /\ UNCHANGED <<sysfs, loaded, globbed, file, devices, args, pc, error, poolSize, inMap,
                   tasks, mapResult, timings, ref, refTimings, mainOp, refTrace, done,
                   raised>>

NextDrivers == CallDrivers

SpecDrivers == InitDrivers /\ [][NextDrivers]_vars

SpecClassify == InitClassify /\ [][NextClassify]_vars


(***************************************************************************)
(* Properties.                                                             *)
(***************************************************************************)
CategoryRank(cat) == CHOOSE k \in 1..Len(MapCategories) : MapCategories[k] = cat

IsMapCategory(cat) == \E k \in 1..Len(MapCategories) : MapCategories[k] = cat

\* the categories of which an operation has started (ended or not)
StartedCategories ==
    { tasks[i].op : i \in { j \in 1..Len(tasks) : tasks[j].st # "queued" } }
      \cup { o[1] : o \in { x \in done : IsMapCategory(x[1]) } }

\* every operation of every requested category before `cat` has returned
EarlierReturned(cat) ==
    \A k \in 1..(CategoryRank(cat) - 1) :
        Requested(MapCategories[k], args) =>
            \A d \in Range(Selected(MapCategories[k], devices, args)) :
                <<MapCategories[k], d>> \in done

\* C1: the requested categories run in the order unlock, eject, close, lock with
\* a full barrier between them: whenever an operation of a category has started
\* (or has returned), every operation of every requested earlier category, on
\* every device selected for it, has returned.
C1_CategoryBarrier == \A cat \in StartedCategories : EarlierReturned(cat)

\* C1 witness: a lock operation is in progress after unlock, eject and close
\* each ran on at least two devices
C1_Witness ==
    /\ \E i \in 1..Len(tasks) : tasks[i].op = "lock" /\ InProgress(tasks[i])
    /\ \A cat \in {"unlock", "eject", "close"} :
          Cardinality({ o \in done : o[1] = cat }) >= 2

\* the operations, of the pool and of the main process, that have ended
EndedOps ==
    { tasks[i] : i \in { j \in 1..Len(tasks) : Ended(tasks[j]) } }
      \cup (IF Ended(mainOp) THEN {mainOp} ELSE {})

\* C2: an operation whose device-control call raised an OS-level error still
\* returns normally (with its phase timings), and the run is not ended by it.
C2_IoctlFailureCaptured ==
    /\ \A t \in EndedOps : t.ret = "OSError" => t.st = "returned"
    /\ error # "TypeError"

\* the eject or close map has ended: it returned, or it raised into the main process
TrayMapEnded(cat) ==
    /\ ~inMap
    /\ \/ mapResult.cat = cat
       \/ pc = "aborted" /\ Len(tasks) > 0 /\ tasks[1].op = cat

\* C3: an eject (or close) map over N selected devices, none of which fails to
\* open, yields exactly N results, the i-th being that of the i-th selected
\* device, whichever device-control calls fail.
C3_OneResultPerDevice ==
    \A cat \in {"eject", "close"} :
        (TrayMapEnded(cat) /\ \A r \in raised : r[3] # "FileNotFoundError") =>
            LET sel == Selected(cat, devices, args)
            IN  /\ mapResult.cat = cat
                /\ Len(mapResult.values) = Len(sel)
                /\ \A i \in 1..Len(sel) :
                      mapResult.values[i] =
                        (IF cat = "eject" THEN EjectTimings(TrayTicks(cat, sel[i]))
                         ELSE CloseTimings(TrayTicks(cat, sel[i])))

\* the operations of the pool whose os.open raised
FailedOpens == { r \in raised : IsMapCategory(r[1]) /\ r[3] = "FileNotFoundError" }

\* C4 as stated: a failed open inside a worker does not abort the run (the
\* case where no device-control call failed as well).
C4_NoGlobalAbort ==
    (FailedOpens # {} /\ \A r \in raised : r[3] # "TypeError") => pc # "aborted"

\* C4 amended: after a failed open inside a worker the main process stays in
\* that category's map until every operation of the category has ended, and
\* then aborts: it is never at a later statement and no operation of a later
\* category ever returns.
C4_OpenFailureAbortsRun ==
    \A r \in FailedOpens :
        /\ inMap => pc = r[1]
        /\ ~inMap => pc = "aborted" /\ MapReady(tasks) /\ Len(tasks) > 0 /\ tasks[1].op = r[1]
        /\ \A o \in done : IsMapCategory(o[1]) => CategoryRank(o[1]) <= CategoryRank(r[1])

\* C4 witness: the run has aborted on a failed open of an eject with close and
\* lock requested, and a sibling eject has returned
C4_Witness ==
    /\ pc = "aborted" /\ error = "FileNotFoundError"
    /\ args.close /\ args.lock
    /\ \E r \in FailedOpens : r[1] = "eject" /\ \E o \in done : o[1] = "eject" /\ o[2] # r[2]

\* the worker operations inside uprint: no operation calls lprint, so none of
\* them holds the lock while it prints and flushes
Emitting == { i \in 1..Len(tasks) : InUprint(tasks[i]) }

\* C5: at most one worker is inside the emission of a log line at any time.
C5_WholeLines == Cardinality(Emitting) <= 1

\* C6: the pool is created with one worker per discovered device, or with
\* exactly one in sequential mode; the operations in progress (those of the
\* workers, and the one of the main process during reference capture) never
\* exceed the pool size; outside sequential mode the pool has a worker for
\* every task of a map.
C6_PoolBound ==
    /\ pc = "filter" => poolSize = (IF args.sequential THEN 1 ELSE Len(devices))
    /\ BusyWorkers(tasks) + (IF InProgress(mainOp) THEN 1 ELSE 0) <= poolSize
    /\ args.sequential /\ poolSize > 0 => poolSize = 1
    /\ ~args.sequential /\ inMap => Len(tasks) <= poolSize

\* C6 witness: outside sequential mode, three selected devices are in progress
\* at the same time
C6_Witness ==
    /\ ~args.sequential
    /\ Len(tasks) = 3
    /\ \A i \in 1..Len(tasks) : InProgress(tasks[i])

\* the position of a device in the sorted device list
Position(d) == CHOOSE k \in 1..Len(devices) : devices[k] = d

\* the tasks follow the order of the sorted device list
InListOrder(ts) ==
    \A i \in 1..(Len(ts) - 1) : Position(ts[i].device) < Position(ts[i + 1].device)

\* C7: in sequential mode at most one device operation is in progress at any
\* time, the tasks of a map are in device-list order, and the operation at
\* position i + 1 does not start before the one at position i has ended.
C7_SequentialOrder ==
    args.sequential =>
        /\ BusyWorkers(tasks) + (IF InProgress(mainOp) THEN 1 ELSE 0) <= 1
        /\ InListOrder(tasks)
        /\ \A i \in 1..(Len(tasks) - 1) : tasks[i + 1].st # "queued" => Ended(tasks[i])

\* C7 witness: sequential mode, the first operation of a map has returned and
\* the second is in progress while a third is still queued
C7_Witness ==
    /\ args.sequential
    /\ Len(tasks) = 3
    /\ tasks[1].st = "returned" /\ InProgress(tasks[2]) /\ tasks[3].st = "queued"

\* eject, settle, close, settle for each device of the list, in list order
RECURSIVE CapturePlan(_)
CapturePlan(list) ==
    IF list = <<>> THEN <<>>
    ELSE << [step |-> "eject", device |-> Head(list), secs |-> 0],
            [step |-> "sleep", device |-> Head(list), secs |-> 5],
            [step |-> "close", device |-> Head(list), secs |-> 0],
            [step |-> "sleep", device |-> Head(list), secs |-> 5] >>
         \o CapturePlan(Tail(list))

IsPrefix(a, b) == Len(a) <= Len(b) /\ SubSeq(b, 1, Len(a)) = a

\* the devices of the list whose path has no /usb
NonUsbDevices == LET Plain(d) == ~Contains(d, "/usb") IN SelectSeq(devices, Plain)

\* C8: what reference capture has done is always a prefix of: for each non-USB
\* device of the device list, in list order, eject, wait 5, close, wait 5, and
\* it is the whole of it when the capture returns; while the capture runs no
\* pool operation is in progress or queued, and a close is only started on a
\* device whose eject has returned.
C8_ReferenceSequential ==
    /\ refTrace # <<>> => IsPrefix(refTrace, CapturePlan(NonUsbDevices))
    /\ ref.step = "returned" => refTrace = CapturePlan(NonUsbDevices)
    /\ (ref.step \notin {"idle", "returned"} \/ mainOp.st # "idle") =>
          pc \in {"reference", "aborted"} /\ ~inMap /\ tasks = <<>>
    /\ mainOp.op = "close" => <<"ref_eject", mainOp.device>> \in done

\* C8 witness: a capture over two non-USB devices has returned, with a USB
\* device in the list
C8_Witness ==
    /\ ref.step = "returned"
    /\ Len(refTrace) = 8
    /\ Len(devices) = 3

\* C9: the timings file is written, and the mapping replaced after its load,
\* only by the main process at the end of the reference capture of a
\* --reference run, with no pool operation in progress; without --reference
\* the file keeps its content and the mapping stays what was loaded from it.
C9_BaselineReadOnly ==
    [][ /\ (file' # file \/ (timings' # timings /\ pc # "load")) =>
             /\ pc = "reference" /\ args.reference
             /\ ~inMap /\ BusyWorkers(tasks) = 0 /\ ~InProgress(mainOp)
        /\ ~args.reference => file' = file
        /\ (~args.reference /\ pc \in {"load", "reference", "eject", "close", "lock"}) =>
             timings' = (IF file.exists THEN PickleLoad(file.data) ELSE EmptyDict)
      ]_vars

\* C9 witness: a run without --reference has ejected and closed trays and
\* ended with the loaded, non-empty baseline
C9_Witness ==
    /\ pc = "exit" /\ ~args.reference
    /\ file.exists /\ timings = PickleLoad(file.data) /\ timings # EmptyDict
    /\ \E d \in DOMAIN timings : <<"eject", d>> \in done /\ <<"close", d>> \in done

\* the rank of a device's class in the order pata < sata < unknown < usb
ClassRank(device) ==
    LET cls == device_sort_key(device).cls
    IN  CASE cls = "pata" -> 0
          [] cls = "sata" -> 1
          [] cls = "usb"  -> 3
          [] OTHER        -> 2

\* C10: the sort of the discovered devices succeeds for every input order and
\* yields the devices by class rank pata < sata < unknown < usb, ties by path.
C10_SortIsTotal ==
    pc # "sort" =>
        /\ pc = "parse" /\ error = ""
        /\ \A i \in 1..(Len(devices) - 1) :
              \/ ClassRank(devices[i]) < ClassRank(devices[i + 1])
              \/ /\ ClassRank(devices[i]) = ClassRank(devices[i + 1])
                 /\ StrLess(devices[i], devices[i + 1])

(***************************************************************************)
(* The classifiers.                                                        *)
(***************************************************************************)
\* a driver of the device's chain starts with the prefix
ChainHas(device, prefix) ==
    \E i \in 1..Len(device_drivers(device)) : StartsWith(device_drivers(device)[i], prefix)

\* the class by first match in the order USB, PATA, SATA, unknown
FirstMatchClass(device) ==
    IF Contains(device, "/usb") THEN "usb"
    ELSE IF ChainHas(device, "pata") THEN "pata"
    ELSE IF ChainHas(device, "sata") THEN "sata"
    ELSE PyNone

\* C11: the class device_sort_key returns is the first match in the order USB,
\* PATA, SATA, unknown: usb for a USB path whatever its drivers, pata for a
\* non-USB device with a pata driver even next to a sata driver, sata for a
\* non-USB device with a sata driver and no pata driver, None for the rest
C11_ClassFirstMatch ==
    call.fn = "device_sort_key" => call.value = FirstMatchClass(call.device)

\* a non-USB device with a sata controller driver and a pata driver was classified pata
C11_Witness ==
    /\ call.fn = "device_sort_key"
    /\ ~Contains(call.device, "/usb")
    /\ ChainHas(call.device, "sata") /\ ChainHas(call.device, "pata")
    /\ call.value = "pata"

(***************************************************************************)
(* The devices of the tray categories.                                     *)
(***************************************************************************)
\* the USB drives of the machine
UsbDevices == { d \in Range(SysDevices) : Contains(d, "/usb") }

\* the main process is inside the pool.map of eject or of close
InTrayMap == inMap /\ pc \in {"eject", "close"}

\* the flag of the category for non-USB drives and the one for USB drives
PlainFlag == IF pc = "eject" THEN args.eject ELSE args.close
UsbFlag == IF pc = "eject" THEN args.eject_usb ELSE args.close_usb

\* the device is in the subset the given flags of the category name
Applicable(d) == (PlainFlag /\ d \notin UsbDevices) \/ (UsbFlag /\ d \in UsbDevices)

TaskDevices == { tasks[i].device : i \in 1..Len(tasks) }

\* C12 as stated: a tray category operates only devices of the subset its flags
\* name (non-USB for -e and -c, USB for -u and -t), and with a filter only
\* those of that subset whose short name is in the filter
C12_OnlyApplicableSubset ==
    InTrayMap =>
        \A d \in TaskDevices :
            /\ Applicable(d)
            /\ args.filter # {} => ShortName[d] \in args.filter

\* C12: without a filter a tray category operates exactly the devices of the
\* list that its flags name; with a filter it operates exactly the devices of
\* the list whose short name is in the filter, USB or not, whichever of the
\* two flags of the category was given
C12_FilterLiftsBusCondition ==
    InTrayMap =>
        TaskDevices =
            IF args.filter = {}
            THEN { d \in Range(devices) : Applicable(d) }
            ELSE { d \in Range(devices) : ShortName[d] \in args.filter }

\* -e with a filter and without -u has started the eject of a USB drive
C12_Witness ==
    /\ InTrayMap /\ pc = "eject"
    /\ args.eject /\ ~args.eject_usb /\ args.filter # {}
    /\ \E i \in 1..Len(tasks) : tasks[i].device \in UsbDevices /\ tasks[i].st = "opened"

\* both flags of the tray category of the map in progress were given, without a filter
BothKindsMap ==
    /\ InTrayMap
    /\ PlainFlag /\ UsbFlag
    /\ args.filter = {}

Started(t) == t.st # "queued"

\* C13 as stated: when both the non-USB and the USB flag of eject (or close) are
\* given without a filter, every non-USB device's operation has ended before
\* the operation of any USB device starts
C13_NonUsbBeforeUsb ==
    BothKindsMap =>
        \A i, j \in 1..Len(tasks) :
            (tasks[i].device \in UsbDevices /\ tasks[j].device \notin UsbDevices
               /\ Started(tasks[i])) => Ended(tasks[j])

\* C13: when both flags are given without a filter, one map holds the
\* operations of both kinds with the non-USB devices first; the operation of a
\* USB device is started only after the operation of every non-USB device has
\* been started, and in a --sequential run only after each of them has ended
C13_OneMapUsbLast ==
    BothKindsMap =>
        \A i, j \in 1..Len(tasks) :
            (tasks[i].device \in UsbDevices /\ tasks[j].device \notin UsbDevices) =>
                /\ j < i
                /\ Started(tasks[i]) => Started(tasks[j])
                /\ (args.sequential /\ Started(tasks[i])) => Ended(tasks[j])

\* without --sequential a USB drive and a non-USB drive are inside the
\* device-control call of the same eject map
C13_Witness ==
    /\ BothKindsMap /\ pc = "eject" /\ ~args.sequential
    /\ \E i, j \in 1..Len(tasks) :
         /\ tasks[i].device \in UsbDevices /\ tasks[i].st = "opened"
         /\ tasks[j].device \notin UsbDevices /\ tasks[j].st = "opened"

(***************************************************************************)
(* The baseline.                                                           *)
(***************************************************************************)
\* a --reference run has reached its end
ReferenceRunCompleted == pc = "exit" /\ args.reference

\* the devices whose capture (eject and close) the run has carried out
Captured == { d \in Range(SysDevices) : <<"ref_eject", d>> \in done /\ <<"ref_close", d>> \in done }

\* the eight phase timings the capture measured on a device: one tick for the
\* open and for the close, the drive's motor time for the device-control call
Measured(d) ==
    [eject_total |-> TrayTicks("eject", d) + 2, eject_open |-> 1,
     eject_ioctl |-> TrayTicks("eject", d), eject_close |-> 1,
     close_total |-> TrayTicks("close", d) + 2, close_open |-> 1,
     close_ioctl |-> TrayTicks("close", d), close_close |-> 1]

\* C14: when a --reference run has completed, what a following run loads from
\* the timings file has an entry for exactly the captured devices, and each
\* entry holds exactly the eject and close phase timings the capture measured
C14_BaselineRoundTrip ==
    ReferenceRunCompleted =>
        /\ DOMAIN LoadedTimings(file) = Captured
        /\ \A d \in Captured : LoadedTimings(file)[d] = Measured(d)

\* a --reference run that captured two drives has completed
C14_Witness ==
    /\ ReferenceRunCompleted
    /\ Cardinality(Captured) = 2
    /\ PataMaster \in DOMAIN LoadedTimings(file)

\* the tray operations of the map in progress and of the capture
TrayOps ==
    { tasks[i] : i \in { j \in 1..Len(tasks) : tasks[j].op \in {"eject", "close"} } }
      \cup (IF mainOp.op \in {"eject", "close"} THEN {mainOp} ELSE {})

\* every reference value the operation has printed is the empty string
NoComparison(t) == \A k \in 1..Len(t.refs) : t.refs[k] = NoReference

\* an operation that has ended, its device node having been opened, has run
\* the three phases and printed a reference value (empty or not) for each
RanAllPhases(t) ==
    (Ended(t) /\ t.exc # "FileNotFoundError") =>
        /\ t.phases = <<"open", "ioctl", "close">>
        /\ Len(t.refs) >= 3

\* C15 as stated: after the load of a missing timings file the mapping is
\* empty, and every eject or close operation of the run from then on runs
\* its phases and prints no reference comparison value
C15_NoComparisonAfterMissingFile ==
    loaded = "missing" =>
        \A t \in TrayOps : RanAllPhases(t) /\ NoComparison(t)

\* C15: the load of a missing timings file yields the empty mapping and ends
\* no run; in a run without --reference every eject or close operation after
\* it, and in every run every operation on a device without an entry in
\* the mapping, runs its phases and prints no reference comparison value
C15_MissingBaseline ==
    /\ (loaded = "missing" /\ ~args.reference) =>
          /\ timings = EmptyDict
          /\ pc = "aborted" => \E r \in raised : r[3] = error
          /\ \A t \in TrayOps : RanAllPhases(t) /\ NoComparison(t)
    /\ \A t \in TrayOps :
          t.device \notin DOMAIN timings => RanAllPhases(t) /\ NoComparison(t)

\* a run that found no timings file has ejected a tray: three phases, four
\* empty reference values
C15_Witness ==
    /\ loaded = "missing" /\ ~args.reference /\ pc = "eject"
    /\ \E i \in 1..Len(tasks) :
         /\ tasks[i].st = "returned"
         /\ tasks[i].phases = <<"open", "ioctl", "close">>
         /\ tasks[i].refs = <<NoReference, NoReference, NoReference, NoReference>>

(***************************************************************************)
(* The barrier and termination.                                            *)
(***************************************************************************)
\* a worker is inside the device-control call of an operation of the map
WorkerInCall == \E i \in 1..Len(tasks) : tasks[i].st = "opened"

\* the main process is inside the device-control call of a capture operation
MainInCall == mainOp.st = "opened"

Terminated == pc \in {"exit", "aborted"}

\* whatever step is taken while a device-control call has not returned, the
\* main process is still inside the same pool.map (or the same capture
\* operation) after it, so no later statement has run and the run has not ended
StillBlocked ==
    /\ WorkerInCall => (inMap' /\ pc' = pc /\ Len(tasks') = Len(tasks))
    /\ MainInCall => (pc' = pc /\ ~inMap' /\ mainOp'.st \in {"opened", "ioctled"})

\* C16: a pool.map is a barrier without timeout: as long as a device-control
\* call has not returned the main process stays inside the map, so a call
\* that never returns keeps the run from starting any later category and
\* from ending; and when every step that can be taken is eventually taken
\* (every call returns, every process is scheduled) the run terminates
C16_BarrierNoTimeout == [][StillBlocked]_vars /\ <>Terminated

\* a drive is inside its device-control call while the operation of another
\* drive of the same map has ended and a later category is requested
C16_Witness ==
    /\ inMap /\ pc = "eject" /\ args.lock
    /\ \E i, j \in 1..Len(tasks) : tasks[i].st = "opened" /\ Ended(tasks[j])

(***************************************************************************)
(* The vendor:product annotation of device_drivers.                        *)
(***************************************************************************)
\* the files of the controller directory of the device of the call
NodeFile(attr) == sysfs[<<ControllerNode(call.device), attr>>]

\* device_drivers was called on a device whose controller has a driver link;
\* the controller's entry is then the first of the list
AnnotatedCall == call.fn = "device_drivers" /\ NodeFile("driver") # NoFile

\* the file exists and holds an identifier
Found(attr) == NodeFile(attr) # NoFile /\ Strip0x(NodeFile(attr)) # ""

Annotated(vendor, product) ==
    NodeFile("driver") \o "[" \o Strip0x(vendor) \o ":" \o Strip0x(product) \o "]"

\* C17 as stated: the annotation is the PCI pair (vendor, device) when both
\* are found, the USB pair (idVendor, idProduct) only when the PCI pair is not
\* and both of the USB pair are found, and there is none otherwise
C17_FirstPairWins ==
    AnnotatedCall =>
        call.value[1] =
            IF Found("vendor") /\ Found("device")
            THEN Annotated(NodeFile("vendor"), NodeFile("device"))
            ELSE IF Found("idVendor") /\ Found("idProduct")
            THEN Annotated(NodeFile("idVendor"), NodeFile("idProduct"))
            ELSE NodeFile("driver")

\* the vendor and the product the two try blocks leave: idVendor when that file
\* exists, else vendor; idProduct when idVendor and idProduct exist, else device
\* when vendor and device exist
LastVendor ==
    IF NodeFile("idVendor") # NoFile THEN NodeFile("idVendor") ELSE NodeFile("vendor")

LastProduct ==
    IF NodeFile("idVendor") # NoFile /\ NodeFile("idProduct") # NoFile
    THEN NodeFile("idProduct")
    ELSE IF NodeFile("vendor") # NoFile THEN NodeFile("device") ELSE NoFile

\* C17: the USB files are read after the PCI files and override them: the
\* vendor is idVendor when that file exists and the PCI vendor otherwise, the
\* product is idProduct when both USB files exist and otherwise the PCI device
\* (if both PCI files exist); the annotation is added exactly when both are
\* found and not empty, also when they come from different pairs
C17_LastPairWins ==
    AnnotatedCall =>
        call.value[1] =
            IF LastVendor # NoFile /\ Strip0x(LastVendor) # ""
                 /\ LastProduct # NoFile /\ Strip0x(LastProduct) # ""
            THEN Annotated(LastVendor, LastProduct)
            ELSE NodeFile("driver")

\* a controller with both pairs was annotated with the USB pair
C17_Witness ==
    /\ AnnotatedCall
    /\ Found("vendor") /\ Found("device") /\ Found("idVendor") /\ Found("idProduct")
    /\ call.value[1] = "pata_via[152d:2329]"

(***************************************************************************)
(* The device label.                                                       *)
(***************************************************************************)
\* the positions of the path parts at or after index 4 (Python's count, from
\* 0) that start with "ata"
AtaParts(device) ==
    { k \in 5..Len(Split(device)) : StartsWith(Split(device)[k], "ata") }

\* master or slave by the text of the path
Suffix(device) == IF Contains(device, ":1:0/block") THEN " slave" ELSE " master"

\* the label with the channel taken from the part at position k
LabelWith(device, k) ==
    FirstMatchClass(device) \o " " \o Split(device)[k] \o Suffix(device)

\* the label of a device: of one that is not PATA-affine the class alone, of a
\* PATA-affine one without an "ata" part the class and the suffix, else the
\* class, the chosen "ata" part and the suffix
Label(device, k) ==
    IF ~ChainHas(device, "pata") THEN FirstMatchClass(device)
    ELSE IF AtaParts(device) = {} THEN FirstMatchClass(device) \o Suffix(device)
    ELSE LabelWith(device, k)

\* C18 as stated: the channel in the label of a PATA-affine device is the first
\* path part at or after depth 4 that starts with "ata"
C18_FirstAtaPart ==
    call.fn = "device_type" =>
        call.value = Label(call.device,
                           CHOOSE k \in AtaParts(call.device) \cup {0} :
                               \A j \in AtaParts(call.device) : k <= j /\ k # 0)

\* C18: the label of a PATA-affine device is the class, the last path part at
\* or after depth 4 that starts with "ata" (none if there is no such part) and
\* slave exactly when the path contains ":1:0/block", master otherwise; the
\* label of any other device is the class alone
C18_LastAtaPart ==
    call.fn = "device_type" =>
        call.value = Label(call.device,
                           CHOOSE k \in AtaParts(call.device) \cup {0} :
                               \A j \in AtaParts(call.device) : k >= j)

\* the label of a PATA slave whose path has the parts ata1 and ata2
C18_Witness ==
    /\ call.fn = "device_type"
    /\ call.device = AtaTwice
    /\ call.value = "pata ata2 slave"

(***************************************************************************)
(* The operations on one device.                                           *)
(***************************************************************************)
\* the tasks of the map that are operating on the device, and those that
\* hold a descriptor of it
Operating(d) == { i \in 1..Len(tasks) : tasks[i].device = d /\ InProgress(tasks[i]) }
Holding(d) == { i \in 1..Len(tasks) : tasks[i].device = d /\ HoldsFd(tasks[i]) }

\* C19: a map holds a device at most once; no device has two operations in
\* progress, whether of the pool or of the capture in the main process; the
\* capture runs only while no pool operation is queued or in progress; and so
\* no device has more than one open descriptor
C19_OneOperationPerDevice ==
    /\ \A i, j \in 1..Len(tasks) : i # j => tasks[i].device # tasks[j].device
    /\ \A i \in 1..Len(tasks) :
          /\ Cardinality(Operating(tasks[i].device)) <= 1
          /\ Cardinality(Holding(tasks[i].device)) <= 1
    /\ (InProgress(mainOp) \/ HoldsFd(mainOp)) =>
          \A i \in 1..Len(tasks) : ~InProgress(tasks[i]) /\ ~HoldsFd(tasks[i])
                                      /\ tasks[i].st # "queued"

\* two drives of one map have their descriptors open at the same time
C19_Witness ==
    \E i, j \in 1..Len(tasks) :
        /\ i # j
        /\ HoldsFd(tasks[i]) /\ HoldsFd(tasks[j])
        /\ tasks[i].st = "ioctled" /\ tasks[j].st = "opened"

\* the operations of the map and of the capture that have been created
AllOps == { tasks[i] : i \in 1..Len(tasks) } \cup (IF mainOp.op = "none" THEN {} ELSE {mainOp})

AllPhases == <<"open", "ioctl", "close">>

\* C20: the system calls an operation has made on its descriptor are, in
\* order, a beginning of open, device-control call, close; an operation that
\* has ended holds no open descriptor: it made all three calls, also when the
\* device-control call raised OSError, or its open failed and it made none
C20_OpenIoctlClose ==
    \A t \in AllOps :
        /\ IsPrefix(t.phases, AllPhases)
        /\ Ended(t) =>
              /\ ~HoldsFd(t)
              /\ t.phases = IF t.exc = "FileNotFoundError" THEN <<>> ELSE AllPhases
        /\ (Ended(t) /\ t.ret = "OSError") => t.phases = AllPhases
        /\ t.st = "ioctled" => t.phases = <<"open", "ioctl">>

\* an operation whose device-control call raised OSError has ended, its
\* descriptor closed
C20_Witness ==
    \E i \in 1..Len(tasks) :
        /\ Ended(tasks[i]) /\ tasks[i].ret = "OSError"
        /\ tasks[i].phases = AllPhases
        /\ tasks[i].op = "close"

====
